---- MODULE Spec2Model ----
(***************************************************************************)
(* Canonical Spec pipeline: Spec Store, Gate Engine, Orchestrator state    *)
(* machine and Publish Ledger / Feishu adapter, as laid down in the MVP    *)
(* contracts (docs/mvp_contracts), the database schema and the API         *)
(* contract of the repository.                                             *)
(***************************************************************************)
EXTENDS Integers, Sequences, FiniteSets, TLC

(* ----------------------------- bounds ---------------------------------- *)
\* number of spec versions the store may hold (spec_version ids 1..MaxVersion)
MaxVersion == 4
\* number of publish results recorded per feature
MaxPublishCalls == 3
\* number of health checks started
MaxChecks == 3
\* clarification rounds one dialogue may reach
MaxRound == 2
\* number of clarification dialogues opened
MaxSessions == 2
\* refine and feedback requests awaiting their answer at one time
MaxInFlight == 2
\* pending setTimeout callbacks
MaxTimers == 1

Features == {"F1"}
Procs == {"p1", "p2"}

(* --------------------------- enumerations ------------------------------ *)
FeatureStatus == {"draft", "clarifying", "executable_ready", "published", "hold", "drop"}
NoFeature == "none"
TaskTypes == {"dev", "test", "doc", "ops", "design", "research"}
MutatingSteps == {"compile", "apply_answers", "plan_tasks", "generate_vv"}
ReadOnlySteps == {"validate_gates", "clarify_questions", "manual_review", "publish"}
ReviewDecisions == {"go", "hold", "drop"}
Target == "feishu"
\* minimum length of spec.goal for Gate S
MinGoalLen == 10
\* goal length that earns the full length score
GoalFullLen == 500
\* number of acceptance criteria or tasks that earns the full count score
FullCount == 3
\* automatic retries of a retryable failure
MaxRetries == 3

(* ------------------------ canonical spec content ----------------------- *)
AC1 == [id |-> "AC-1", criteria |-> "c"]
Task1 == [task_id |-> "T-1", title |-> "t", type |-> "dev", scope |-> "s"]
VV1 == [vv_id |-> "VV-1", task_id |-> "T-1", procedure |-> "p", expected_result |-> "e"]
Task2 == [task_id |-> "T-2", title |-> "t", type |-> "test", scope |-> "s"]
VV2 == [vv_id |-> "VV-2", task_id |-> "T-2", procedure |-> "p", expected_result |-> "e"]

\* an input that cannot be parsed: spec.goal missing, nothing extracted
EmptyContent ==
    [goal_len |-> 0, non_goals |-> TRUE, acceptance_criteria |-> <<>>,
     tasks |-> <<>>, vv |-> <<>>]
\* goal and one acceptance criterion extracted, planning still empty
GoalContent ==
    [goal_len |-> 12, non_goals |-> TRUE, acceptance_criteria |-> <<AC1>>,
     tasks |-> <<>>, vv |-> <<>>]

(* ------------------------------ Gate Engine ---------------------------- *)
SeqRange(s) == {s[i] : i \in 1..Len(s)}

gate_s_some_criterion(c) ==
    /\ c.goal_len >= MinGoalLen
    /\ c.non_goals
    /\ \E a \in SeqRange(c.acceptance_criteria) : a.id # "" /\ a.criteria # ""

gate_s(c) ==
    /\ c.goal_len >= MinGoalLen
    /\ c.non_goals
    /\ Len(c.acceptance_criteria) >= 1
    /\ \A a \in SeqRange(c.acceptance_criteria) : a.id # "" /\ a.criteria # ""

gate_t(c) ==
    /\ Len(c.tasks) >= 1
    /\ \A t \in SeqRange(c.tasks) :
          t.task_id # "" /\ t.title # "" /\ t.type \in TaskTypes /\ t.scope # ""

gate_v(c) ==
    /\ Len(c.vv) >= Len(c.tasks)
    /\ \A v \in SeqRange(c.vv) :
          /\ v.vv_id # ""
          /\ v.task_id # ""
          /\ \E t \in SeqRange(c.tasks) : t.task_id = v.task_id
          /\ v.procedure # ""
          /\ v.expected_result # ""
    /\ \A t \in SeqRange(c.tasks) : \E v \in SeqRange(c.vv) : v.task_id = t.task_id

overall_pass_two_gates(c) == gate_s(c) /\ gate_t(c)

overall_pass(c) == gate_s(c) /\ gate_t(c) /\ gate_v(c)

\* the missing_fields a gate records, by field path
gate_s_missing(c) ==
    (IF c.goal_len < MinGoalLen THEN {"spec.goal"} ELSE {})
    \cup (IF ~c.non_goals THEN {"spec.non_goals"} ELSE {})
    \cup (IF Len(c.acceptance_criteria) = 0 THEN {"spec.acceptance_criteria"} ELSE {})
    \cup (IF \E a \in SeqRange(c.acceptance_criteria) : a.id = ""
          THEN {"spec.acceptance_criteria[].id"} ELSE {})
    \cup (IF \E a \in SeqRange(c.acceptance_criteria) : a.criteria = ""
          THEN {"spec.acceptance_criteria[].criteria"} ELSE {})

gate_t_missing(c) ==
    (IF Len(c.tasks) = 0 THEN {"planning.tasks"} ELSE {})
    \cup (IF \E t \in SeqRange(c.tasks) : t.task_id = ""
          THEN {"planning.tasks[].task_id"} ELSE {})
    \cup (IF \E t \in SeqRange(c.tasks) : t.title = ""
          THEN {"planning.tasks[].title"} ELSE {})
    \cup (IF \E t \in SeqRange(c.tasks) : t.type \notin TaskTypes
          THEN {"planning.tasks[].type"} ELSE {})
    \cup (IF \E t \in SeqRange(c.tasks) : t.scope = ""
          THEN {"planning.tasks[].scope"} ELSE {})

gate_v_missing(c) ==
    (IF \/ Len(c.vv) < Len(c.tasks)
        \/ \E t \in SeqRange(c.tasks) : \A v \in SeqRange(c.vv) : v.task_id # t.task_id
     THEN {"planning.vv"} ELSE {})
    \cup (IF \E v \in SeqRange(c.vv) : v.vv_id = ""
          THEN {"planning.vv[].vv_id"} ELSE {})
    \cup (IF \E v \in SeqRange(c.vv) :
                \A t \in SeqRange(c.tasks) : t.task_id # v.task_id
          THEN {"planning.vv[].task_id"} ELSE {})
    \cup (IF \E v \in SeqRange(c.vv) : v.procedure = ""
          THEN {"planning.vv[].procedure"} ELSE {})
    \cup (IF \E v \in SeqRange(c.vv) : v.expected_result = ""
          THEN {"planning.vv[].expected_result"} ELSE {})

missing_fields_every_gate(c) ==
    gate_s_missing(c) \cup gate_t_missing(c) \cup gate_v_missing(c)

\* the findings of the Gate Result: those of the first gate that fails, the
\* gates after it are not checked
missing_fields(c) ==
    IF ~gate_s(c) THEN gate_s_missing(c)
    ELSE IF ~gate_t(c) THEN gate_t_missing(c)
    ELSE gate_v_missing(c)

\* min(a, b)
Min(a, b) == IF a <= b THEN a ELSE b

\* calculate_goal_quality, in thousandths; the goal carries no keyword
goal_quality(c) ==
    IF c.goal_len < MinGoalLen THEN 0
    ELSE (Min(1000, (c.goal_len * 1000) \div GoalFullLen) * 6 + 300 * 4) \div 10

\* calculate_ac_quality, in thousandths; no criterion carries a test_hint
acceptance_criteria_quality(c) ==
    IF Len(c.acceptance_criteria) = 0 THEN 0
    ELSE (Min(1000, (Len(c.acceptance_criteria) * 1000) \div FullCount) * 7) \div 10

\* count part of tasks_quality and coverage part of vv_quality, in thousandths
tasks_quality(c) == Min(1000, (Len(c.tasks) * 1000) \div FullCount)

vv_quality(c) ==
    IF Len(c.tasks) = 0 THEN 0
    ELSE (Cardinality({t \in SeqRange(c.tasks) :
                         \E v \in SeqRange(c.vv) : v.task_id = t.task_id}) * 1000)
            \div Len(c.tasks)

\* the weighted score, in thousandths
completeness_score(c) ==
    (goal_quality(c) * 30 + acceptance_criteria_quality(c) * 25
        + tasks_quality(c) * 25 + vv_quality(c) * 20) \div 100

evaluate_pass_without_v(c) ==
    [gate_s |-> gate_s(c),
     gate_t |-> gate_s(c) /\ gate_t(c),
     gate_v |-> gate_s(c) /\ gate_t(c) /\ gate_v(c),
     missing_fields |-> missing_fields(c),
     completeness_score |-> completeness_score(c),
     overall_pass |-> gate_s(c) /\ gate_t(c)]

\* the Gate Result: Gate T is checked only after Gate S passed and Gate V only
\* after Gate T passed; a gate that was not reached is reported as not passed
evaluate(c) ==
    [gate_s |-> gate_s(c),
     gate_t |-> gate_s(c) /\ gate_t(c),
     gate_v |-> gate_s(c) /\ gate_t(c) /\ gate_v(c),
     missing_fields |-> missing_fields(c),
     completeness_score |-> completeness_score(c),
     overall_pass |-> overall_pass(c)]

next_status_score_threshold(r) ==
    IF r.overall_pass /\ r.completeness_score >= 500 THEN "executable_ready"
    ELSE "clarifying"

\* the status gate evaluation leads to
next_status(r) == IF r.overall_pass THEN "executable_ready" ELSE "clarifying"


(* ------------------------------- state --------------------------------- *)
VARIABLES
    status,             \* features.status, NoFeature before the first compile
    cur,                \* current spec_version of each feature, 0 = none
    review,             \* last review_decision of each feature and who gave it
    project_record_id,  \* project_context_ref.project_record_id present
    canonical_specs,    \* rows of the canonical_specs table
    putLog,             \* per feature, the spec_versions returned by put, in order
    publish_ledger,     \* rows of the publish_ledger table
    feishu,             \* records of the Feishu requirement table
    pubLog,             \* per feature, the publish results returned, in order
    snapshots,          \* the Step Snapshots the last step wrote to the Snapshot Store
    proc,               \* the step each worker has in flight
    step_snapshots,     \* rows of the step_snapshots table, in insertion order
    runs,               \* the pipeline executions (run_id) and where each stands
    refineResult,       \* App state: the refine result held, "null" when none
    newFeatureInput,    \* App state: the text in the input box
    clarifyingMode,     \* App state: the clarification dialogue is open
    clarifyingFeatureId, \* App state: "null" = new feature, else the feature edited
    refineContext,      \* App state: round and feature_id of the dialogue so far
    refineAnswers,      \* App state: the answers typed to the open questions
    features,           \* App state: the feature ids in the loaded feature list
    currentFeature,     \* App state: the feature selected for the detail view
    activeTab,          \* App state: "list" or "view"
    loading,            \* the handler awaiting the answer to its POST, or "none"
    refineLoading,      \* App state: the flag the refine handlers set and clear
    inflight,           \* the refine and feedback requests awaiting their answer
    timers,             \* the pending setTimeout callbacks, each with its closure
    sessionSeq,         \* the number of clarification dialogues opened so far
    request,            \* the endpoint the client sent a request to in the last transition
    requestBody,        \* the fields of that request's body
    response,           \* the outcome of the answer handled in the last transition
    isHealthy,          \* HealthProvider state: "null" unknown, "true", "false"
    isPolling,          \* the poller's flag, FALSE once its stop function ran
    timeoutId,          \* the poller's timer is pending
    checks,             \* the health checks awaiting their answer
    checkSeq,           \* the number of health checks started so far
    lastResult,         \* the answer to the check started last, "pending" until it arrives
    healthEvent         \* the health callback invoked in the last transition

vars == <<status, cur, review, project_record_id, canonical_specs, putLog,
          publish_ledger, feishu, pubLog, snapshots, proc, step_snapshots, runs,
          refineResult, newFeatureInput, clarifyingMode, clarifyingFeatureId,
          refineContext, refineAnswers, features, currentFeature, activeTab,
          loading, refineLoading, inflight, timers, sessionSeq, request,
          requestBody, response, isHealthy, isPolling, timeoutId, checks, checkSeq,
          lastResult, healthEvent>>

app_vars == <<refineResult, newFeatureInput, clarifyingMode, clarifyingFeatureId,
              refineContext, refineAnswers, features, currentFeature, activeTab,
              loading, refineLoading, inflight, timers, sessionSeq>>

sent_vars == <<request, requestBody, response>>

health_vars == <<isHealthy, isPolling, timeoutId, checks, checkSeq, lastResult>>

client_vars == <<app_vars, sent_vars, health_vars, healthEvent>>

backend_vars == <<status, cur, review, project_record_id, canonical_specs, putLog,
                  publish_ledger, feishu, pubLog, snapshots, proc, step_snapshots, runs>>

\* the poller and the provider start one health check each when they mount
InitHealth ==
    /\ isHealthy = "null"
    /\ isPolling = TRUE
    /\ timeoutId = FALSE
    /\ checks = {[id |-> 1, origin |-> "performHealthCheck"], [id |-> 2, origin |-> "poll"]}
    /\ checkSeq = 2
    /\ lastResult = "pending"
    /\ healthEvent = "none"

\* the App component right after it is mounted, the saved feature list loaded
InitApp ==
    /\ refineResult = "null"
    /\ newFeatureInput = ""
    /\ clarifyingMode = FALSE
    /\ clarifyingFeatureId = "null"
    /\ refineContext = [round |-> 0, feature_id |-> "null"]
    /\ refineAnswers = "empty"
    /\ features = {"F1"}
    /\ currentFeature = "null"
    /\ activeTab = "list"
    /\ loading = [by |-> "none", feature_id |-> "null"]
    /\ refineLoading = FALSE
    /\ inflight = {}
    /\ timers = {}
    /\ sessionSeq = 0
    /\ request = "none"
    /\ requestBody = {}
    /\ response = [to |-> "none", ok |-> FALSE]
    /\ InitHealth

\* pipeline executions; a run that has not been requested is at pc "new"
RunIds == {"R1", "R2"}
NoRun ==
    [pc |-> "new", seq |-> 0, input |-> "", cand |-> 0, content |-> EmptyContent,
     error |-> "none"]

Idle ==
    [pc |-> "idle", step |-> "", feature_id |-> "", spec_version_in |-> 0,
     cand |-> 0, content |-> EmptyContent, external_id |-> 0, calls |-> 0,
     approved_by |-> "none", prior_external_id |-> 0]

Init ==
    /\ status = [f \in Features |-> NoFeature]
    /\ cur = [f \in Features |-> 0]
    /\ review = [f \in Features |-> [decision |-> "none", by |-> "none"]]
    /\ project_record_id = [f \in Features |-> FALSE]
    /\ canonical_specs = {}
    /\ putLog = [f \in Features |-> <<>>]
    /\ publish_ledger = {}
    /\ feishu = {}
    /\ pubLog = [f \in Features |-> <<>>]
    /\ snapshots = <<>>
    /\ proc = [p \in Procs |-> Idle]
    /\ step_snapshots = <<>>
    /\ runs = [r \in RunIds |-> NoRun]
    /\ InitApp

(* ------------------------------ Spec Store ----------------------------- *)
SetMax(S) == IF S = {} THEN 0 ELSE CHOOSE x \in S : \A y \in S : y <= x

\* latest(featureId): the highest spec_version stored for the feature
latest(rows, f) == SetMax({r.spec_version : r \in {x \in rows : x.feature_id = f}})

\* get(featureId, versionId): the stored contents under that key
get(rows, f, v) ==
    {r.spec_content : r \in {x \in rows : x.feature_id = f /\ x.spec_version = v}}

NextSpecVersionReuse(rows) == SetMax({r.spec_version : r \in rows})

\* the next spec_version (S-YYYYMMDD-NNNN): one past the highest one issued
NextSpecVersion(rows) == SetMax({r.spec_version : r \in rows}) + 1

SpecVersionUnique(rows, v) == \A r \in rows : r.spec_version # v

NoVersionConflictAny(rows, f, base) == TRUE

NoVersionConflict(rows, f, base) == latest(rows, f) = base

PutUnchecked(rows, f, base, v) == TRUE

\* put succeeds iff nobody wrote the feature since base was read and the
\* spec_version is not taken
PutOk(rows, f, base, v) ==
    NoVersionConflict(rows, f, base) /\ SpecVersionUnique(rows, v)

InsertRowKeepLatest(rows, f, v, c) ==
    {r \in rows : r.feature_id # f}
        \cup {[spec_version |-> v, feature_id |-> f, spec_content |-> c]}

InsertRow(rows, f, v, c) ==
    rows \cup {[spec_version |-> v, feature_id |-> f, spec_content |-> c]}

\* the content of the feature's current version
CurContent(f) == CHOOSE c \in get(canonical_specs, f, cur[f]) : TRUE

(* ----------------------------- Orchestrator --------------------------- *)
\* a Step Snapshot; spec_version_out 0 is null, error "none" is errors = []
Snapshot(f, step, vin, vout, err, n) ==
    [feature_id |-> f, step |-> step, spec_version_in |-> vin,
     spec_version_out |-> vout, error |-> err, retries |-> n]

ErrorSnapshotWithOutput(p, err, n) ==
    <<Snapshot(proc[p].feature_id, proc[p].step, proc[p].spec_version_in,
               proc[p].spec_version_in, "none", n)>>

\* the snapshot of a step that failed: the error recorded, spec_version_out null
ErrorSnapshot(p, err, n) ==
    <<Snapshot(proc[p].feature_id, proc[p].step, proc[p].spec_version_in,
               0, err, n)>>

FailureKinds == {"retryable", "non_retryable"}

ShouldRetryAnyKind(kind, n) == n < MaxRetries

\* a retryable failure is retried up to MaxRetries times, any other not at all
ShouldRetry(kind, n) == kind = "retryable" /\ n < MaxRetries

\* the retry loop around an external call that keeps failing the same way:
\* the number of retries made, from n on, before the error is surfaced
RECURSIVE RetriesMade(_, _)
RetriesMade(kind, n) == IF ShouldRetry(kind, n) THEN RetriesMade(kind, n + 1) ELSE n

\* statuses in which a command that runs the step is accepted
StepStatusesWithPublished(step) ==
    IF step = "compile" THEN {NoFeature}
    ELSE {"draft", "clarifying", "hold", "published"}

StepStatuses(step) ==
    CASE step = "compile" -> {NoFeature}
      [] step = "apply_answers" -> {"draft", "clarifying", "hold"}
      [] step = "plan_tasks" -> {"draft", "clarifying"}
      [] step = "generate_vv" -> {"draft", "clarifying"}
      [] OTHER -> {}

\* plan needs Gate S, vv needs Gate T on the input version
StepGateOk(step, f) ==
    CASE step = "plan_tasks" -> gate_s(CurContent(f))
      [] step = "generate_vv" -> gate_t(CurContent(f))
      [] OTHER -> TRUE

\* what the LLM compiler may return for the step, given the input content
StepOutputs(step, c) ==
    CASE step = "compile" -> {EmptyContent, GoalContent}
      [] step = "apply_answers" ->
            {[c EXCEPT !.goal_len = 12, !.acceptance_criteria = <<AC1>>]}
      [] step = "plan_tasks" -> {[c EXCEPT !.tasks = <<Task1, Task2>>]}
      [] step = "generate_vv" -> {[c EXCEPT !.vv = <<VV1, VV2>>]}
      [] OTHER -> {}

StatusAfterAlwaysDraft(step, s) == "draft"

\* the status a successful mutating step leaves the feature in
StatusAfter(step, s) ==
    CASE step = "compile" -> "draft"
      [] step = "apply_answers" /\ s = "clarifying" -> "draft"
      [] step = "apply_answers" /\ s = "hold" -> "clarifying"
      [] OTHER -> s

\* a worker picks up a mutating step and reads its input version
BeginStep(p, f, step) ==
    /\ proc[p].pc = "idle"
    /\ step \in MutatingSteps
    /\ status[f] \in StepStatuses(step)
    /\ NextSpecVersion(canonical_specs) <= MaxVersion
    /\ step = "compile" =>
          \A q \in Procs : proc[q].pc = "idle" \/ proc[q].feature_id # f
    /\ step # "compile" => StepGateOk(step, f)
    /\ proc' = [proc EXCEPT ![p] =
                   [Idle EXCEPT !.pc = "llm", !.step = step, !.feature_id = f,
                                !.spec_version_in = cur[f]]]
    /\ snapshots' = <<>>
    /\ UNCHANGED <<status, cur, review, project_record_id, canonical_specs, putLog,
                   publish_ledger, feishu, pubLog>>
    /\ UNCHANGED <<step_snapshots, runs>>
    /\ UNCHANGED client_vars

\* the LLM call fails: after the retries the step ends with the error in its
\* snapshot and no new spec_version
LLMFail(p, kind) ==
    /\ proc[p].pc = "llm"
    /\ kind \in FailureKinds
    /\ proc' = [proc EXCEPT ![p] = Idle]
    /\ snapshots' = ErrorSnapshot(p, kind, RetriesMade(kind, 0))
    /\ UNCHANGED <<status, cur, review, project_record_id, canonical_specs, putLog,
                   publish_ledger, feishu, pubLog>>
    /\ UNCHANGED <<step_snapshots, runs>>
    /\ UNCHANGED client_vars

\* the operator cancels the step while the LLM call is running
AbortStep(p) ==
    /\ proc[p].pc = "llm"
    /\ proc' = [proc EXCEPT ![p] = Idle]
    /\ snapshots' = ErrorSnapshot(p, "aborted", 0)
    /\ UNCHANGED <<status, cur, review, project_record_id, canonical_specs, putLog,
                   publish_ledger, feishu, pubLog>>
    /\ UNCHANGED <<step_snapshots, runs>>
    /\ UNCHANGED client_vars

\* the LLM call returns the candidate content; the next spec_version is drawn
LLMReturn(p) ==
    /\ proc[p].pc = "llm"
    /\ NextSpecVersion(canonical_specs) <= MaxVersion
    /\ LET f == proc[p].feature_id
           vin == proc[p].spec_version_in
           cin == IF vin = 0 THEN EmptyContent
                  ELSE CHOOSE c \in get(canonical_specs, f, vin) : TRUE
       IN \E c \in StepOutputs(proc[p].step, cin) :
             proc' = [proc EXCEPT ![p].pc = "put", ![p].content = c,
                                  ![p].cand = NextSpecVersion(canonical_specs)]
    /\ snapshots' = <<>>
    /\ UNCHANGED <<status, cur, review, project_record_id, canonical_specs, putLog,
                   publish_ledger, feishu, pubLog>>
    /\ UNCHANGED <<step_snapshots, runs>>
    /\ UNCHANGED client_vars

\* put writes the new version and the step moves the feature; a step whose
\* transition the state machine no longer allows returns the error without a
\* snapshot, a version conflict is a step error
Commit(p) ==
    /\ proc[p].pc = "put"
    /\ LET f == proc[p].feature_id
           step == proc[p].step
           vin == proc[p].spec_version_in
           v == proc[p].cand
       IN IF status[f] \notin StepStatuses(step)
          THEN /\ snapshots' = <<>>
               /\ UNCHANGED <<status, cur, project_record_id, canonical_specs, putLog>>
          ELSE IF ~PutOk(canonical_specs, f, vin, v)
          THEN /\ snapshots' = ErrorSnapshot(p, "version_conflict", 0)
               /\ UNCHANGED <<status, cur, project_record_id, canonical_specs, putLog>>
          ELSE /\ canonical_specs' = InsertRow(canonical_specs, f, v, proc[p].content)
               /\ cur' = [cur EXCEPT ![f] = v]
               /\ putLog' = [putLog EXCEPT ![f] = Append(@, v)]
               /\ status' = [status EXCEPT ![f] = StatusAfter(step, @)]
               /\ snapshots' = <<Snapshot(f, step, vin, v, "none", 0)>>
               /\ IF step = "compile"
                  THEN \E prj \in BOOLEAN :
                          project_record_id' = [project_record_id EXCEPT ![f] = prj]
                  ELSE UNCHANGED project_record_id
    /\ proc' = [proc EXCEPT ![p] = Idle]
    /\ UNCHANGED <<review, publish_ledger, feishu, pubLog>>
    /\ UNCHANGED <<step_snapshots, runs>>
    /\ UNCHANGED client_vars

ValidateGatesNewVersion(f) ==
    /\ status[f] \in {"draft", "clarifying"}
    /\ status' = [status EXCEPT ![f] = next_status(evaluate(CurContent(f)))]
    /\ canonical_specs' =
          InsertRow(canonical_specs, f, NextSpecVersion(canonical_specs), CurContent(f))
    /\ cur' = [cur EXCEPT ![f] = NextSpecVersion(canonical_specs)]
    /\ snapshots' = <<Snapshot(f, "validate_gates", cur[f], cur'[f], "none", 0)>>
    /\ UNCHANGED <<review, project_record_id, putLog,
                   publish_ledger, feishu, pubLog, proc>>
    /\ UNCHANGED <<step_snapshots, runs>>
    /\ UNCHANGED client_vars

\* validate_gates: evaluate the current version and move the feature
ValidateGates(f) ==
    /\ status[f] \in {"draft", "clarifying"}
    /\ status' = [status EXCEPT ![f] = next_status(evaluate(CurContent(f)))]
    /\ snapshots' = <<Snapshot(f, "validate_gates", cur[f], cur[f], "none", 0)>>
    /\ UNCHANGED <<cur, review, project_record_id, canonical_specs, putLog,
                   publish_ledger, feishu, pubLog, proc>>
    /\ UNCHANGED <<step_snapshots, runs>>
    /\ UNCHANGED client_vars

\* clarify_questions: returns the questions for the missing fields; read-only
ClarifyQuestions(f) ==
    /\ status[f] = "clarifying"
    /\ snapshots' = <<Snapshot(f, "clarify_questions", cur[f], cur[f], "none", 0)>>
    /\ UNCHANGED <<status, cur, review, project_record_id, canonical_specs, putLog,
                   publish_ledger, feishu, pubLog, proc>>
    /\ UNCHANGED <<step_snapshots, runs>>
    /\ UNCHANGED client_vars

\* the status a review decision leads to
ReviewStatus(s, d) ==
    CASE s = "executable_ready" /\ d = "hold" -> "hold"
      [] s = "executable_ready" /\ d = "drop" -> "drop"
      [] s = "hold" /\ d = "drop" -> "drop"
      [] OTHER -> s

\* manual_review: a person answers the go / hold / drop prompt
ManualReview(f, d) ==
    /\ d \in ReviewDecisions
    /\ \/ status[f] = "executable_ready"
       \/ status[f] = "hold" /\ d = "drop"
    /\ review' = [review EXCEPT ![f] = [decision |-> d, by |-> "human"]]
    /\ status' = [status EXCEPT ![f] = ReviewStatus(@, d)]
    /\ snapshots' = <<Snapshot(f, "manual_review", cur[f], cur[f], "none", 0)>>
    /\ UNCHANGED <<cur, project_record_id, canonical_specs, putLog,
                   publish_ledger, feishu, pubLog, proc>>
    /\ UNCHANGED <<step_snapshots, runs>>
    /\ UNCHANGED client_vars

\* plan_to_feishu --auto-review: the script confirms without a person
AutoReview(f) ==
    /\ status[f] = "executable_ready"
    /\ review' = [review EXCEPT ![f] = [decision |-> "go", by |-> "auto"]]
    /\ snapshots' = <<Snapshot(f, "manual_review", cur[f], cur[f], "none", 0)>>
    /\ UNCHANGED <<status, cur, project_record_id, canonical_specs, putLog,
                   publish_ledger, feishu, pubLog, proc>>
    /\ UNCHANGED <<step_snapshots, runs>>
    /\ UNCHANGED client_vars

(* ----------------------- Publish Ledger + Adapter ----------------------- *)
\* ledger.get(feature_id, target, spec_version)
ledger_get(ledger, f, t, v) ==
    {e \in ledger : e.feature_id = f /\ e.target = t /\ e.spec_version = v}

LedgerKeyAny(ledger, f, t, v) == TRUE

\* uk_publish_ledger_feature_target_version
LedgerKeyFree(ledger, f, t, v) == ledger_get(ledger, f, t, v) = {}

LedgerEntry(ledger, f, v, ext, op, st) ==
    [ledger_id |-> Cardinality(ledger) + 1, feature_id |-> f, target |-> Target,
     spec_version |-> v, external_id |-> ext, operation |-> op, status |-> st]

PublishResult(v, op, ext, calls) ==
    [spec_version |-> v, operation |-> op, external_id |-> ext, calls |-> calls]

\* existing and existing.status == "active"
ActiveEntries(f, v) ==
    {e \in ledger_get(publish_ledger, f, Target, v) : e.status = "active"}

NoopResultNoId(active, v) == PublishResult(v, "noop", 0, 0)

\* an active entry exists: return noop with its external_id, no Feishu call
NoopResult(active, v) ==
    PublishResult(v, "noop", (CHOOSE e \in active : TRUE).external_id, 0)

\* the external_id of the feature's active entry for another spec_version
\* (the latest such entry), 0 if there is none
PriorExternalId(f, v) ==
    LET prior == {e \in publish_ledger : /\ e.feature_id = f /\ e.target = Target
                                         /\ e.status = "active" /\ e.spec_version # v}
    IN IF prior = {} THEN 0
       ELSE (CHOOSE e \in prior : \A x \in prior : x.ledger_id <= e.ledger_id).external_id

PublishPreconditionNoProject(f) ==
    /\ status[f] = "executable_ready"
    /\ overall_pass(CurContent(f))
    /\ review[f].decision = "go"

\* what a publish needs, else it is refused: the feature is executable_ready,
\* all gates pass, review_decision is go, project_record_id is present
PublishPrecondition(f) ==
    /\ status[f] = "executable_ready"
    /\ overall_pass(CurContent(f))
    /\ review[f].decision = "go"
    /\ project_record_id[f]

\* find_existing_feishu_record(feature_id): by the frontmatter of the record
find_existing_feishu_record(records, f) ==
    SetMax({r.record_id : r \in {x \in records : x.feature_id = f}})

\* upsert_feature step 1: the ledger lookup, then the preconditions
PublishBegin(p, f) ==
    /\ proc[p].pc = "idle"
    /\ status[f] # NoFeature
    /\ Len(pubLog[f])
         + Cardinality({q \in Procs : proc[q].pc \in {"pub_find", "pub_call"}
                                       /\ proc[q].feature_id = f})
         < MaxPublishCalls
    /\ LET v == cur[f]
           active == ActiveEntries(f, v)
       IN IF active # {}
          THEN /\ pubLog' = [pubLog EXCEPT ![f] = Append(@, NoopResult(active, v))]
               /\ snapshots' = <<Snapshot(f, "publish", v, v, "none", 0)>>
               /\ UNCHANGED proc
          ELSE IF ~PublishPrecondition(f)
          THEN /\ snapshots' = <<Snapshot(f, "publish", v, 0, "non_retryable", 0)>>
               /\ UNCHANGED <<pubLog, proc>>
          ELSE /\ proc' = [proc EXCEPT ![p] =
                             [Idle EXCEPT !.pc = "pub_find", !.step = "publish",
                                          !.feature_id = f, !.spec_version_in = v,
                                          !.approved_by = review[f].by,
                                          !.prior_external_id = PriorExternalId(f, v)]]
               /\ snapshots' = <<>>
               /\ UNCHANGED pubLog
    /\ UNCHANGED <<status, cur, review, project_record_id, canonical_specs, putLog,
                   publish_ledger, feishu>>
    /\ UNCHANGED <<step_snapshots, runs>>
    /\ UNCHANGED client_vars

\* upsert_feature step 3: ask Feishu for a record of this feature
PublishFind(p) ==
    /\ proc[p].pc = "pub_find"
    /\ proc' = [proc EXCEPT ![p].pc = "pub_call",
                            ![p].external_id =
                                find_existing_feishu_record(feishu, proc[p].feature_id),
                            ![p].calls = @ + 1]
    /\ snapshots' = <<>>
    /\ UNCHANGED <<status, cur, review, project_record_id, canonical_specs, putLog,
                   publish_ledger, feishu, pubLog>>
    /\ UNCHANGED <<step_snapshots, runs>>
    /\ UNCHANGED client_vars

\* upsert_feature steps 3-4: update or create the record, then write the ledger
PublishCall(p) ==
    /\ proc[p].pc = "pub_call"
    /\ LET f == proc[p].feature_id
           v == proc[p].spec_version_in
           found == proc[p].external_id
           ext == IF found # 0 THEN found ELSE Cardinality(feishu) + 1
           op == IF found # 0 THEN "updated" ELSE "created"
           free == LedgerKeyFree(publish_ledger, f, Target, v)
       IN /\ feishu' =
                IF found # 0
                THEN {IF r.record_id = found THEN [r EXCEPT !.spec_version = v] ELSE r
                        : r \in feishu}
                ELSE feishu \cup {[record_id |-> ext, feature_id |-> f,
                                   spec_version |-> v]}
          /\ IF free
             THEN /\ publish_ledger' = publish_ledger \cup
                        {LedgerEntry(publish_ledger, f, v, ext, op, "active")}
                  /\ status' = [status EXCEPT ![f] =
                        IF @ = "executable_ready" THEN "published" ELSE @]
                  /\ pubLog' = [pubLog EXCEPT ![f] =
                        Append(@, PublishResult(v, op, ext, proc[p].calls + 1))]
                  /\ snapshots' = <<Snapshot(f, "publish", v, v, "none", 0)>>
             ELSE /\ pubLog' = [pubLog EXCEPT ![f] =
                        Append(@, PublishResult(v, "conflict", ext, proc[p].calls + 1))]
                  /\ snapshots' = ErrorSnapshot(p, "conflict", 0)
                  /\ UNCHANGED <<publish_ledger, status>>
    /\ proc' = [proc EXCEPT ![p] = Idle]
    /\ UNCHANGED <<cur, review, project_record_id, canonical_specs, putLog>>
    /\ UNCHANGED <<step_snapshots, runs>>
    /\ UNCHANGED client_vars

\* the Feishu call fails: after the retries a failed ledger entry is created
\* and the error goes to the caller
PublishCallFail(p, kind) ==
    /\ proc[p].pc = "pub_call"
    /\ kind \in FailureKinds
    /\ LET f == proc[p].feature_id
           v == proc[p].spec_version_in
           n == RetriesMade(kind, 0)
       IN /\ publish_ledger' =
                IF LedgerKeyFree(publish_ledger, f, Target, v)
                THEN publish_ledger \cup
                        {LedgerEntry(publish_ledger, f, v, 0, "created", "failed")}
                ELSE publish_ledger
          /\ pubLog' = [pubLog EXCEPT ![f] =
                Append(@, PublishResult(v, "failed", 0, proc[p].calls + 1 + n))]
          /\ snapshots' = ErrorSnapshot(p, kind, n)
    /\ proc' = [proc EXCEPT ![p] = Idle]
    /\ UNCHANGED <<status, cur, review, project_record_id, canonical_specs, putLog,
                   feishu>>
    /\ UNCHANGED <<step_snapshots, runs>>
    /\ UNCHANGED client_vars

(* --------------------------- specification ----------------------------- *)
Next ==
    \/ \E p \in Procs, f \in Features, step \in MutatingSteps : BeginStep(p, f, step)
    \/ \E p \in Procs : LLMReturn(p)
    \/ \E p \in Procs, kind \in FailureKinds : LLMFail(p, kind)
    \/ \E p \in Procs : AbortStep(p)
    \/ \E p \in Procs : Commit(p)
    \/ \E f \in Features : ValidateGates(f)
    \/ \E f \in Features : ClarifyQuestions(f)
    \/ \E f \in Features, d \in ReviewDecisions : ManualReview(f, d)
    \/ \E f \in Features : AutoReview(f)
    \/ \E p \in Procs, f \in Features : PublishBegin(p, f)
    \/ \E p \in Procs : PublishFind(p)
    \/ \E p \in Procs : PublishCall(p)
    \/ \E p \in Procs, kind \in FailureKinds : PublishCallFail(p, kind)

Spec == Init /\ [][Next]_vars

\* publish called in sequence: a publish starts only after the previous returned
NoPublishInFlight == \A q \in Procs : proc[q].step # "publish"

SeqNext ==
    \/ \E p \in Procs, f \in Features, step \in MutatingSteps : BeginStep(p, f, step)
    \/ \E p \in Procs : LLMReturn(p)
    \/ \E p \in Procs, kind \in FailureKinds : LLMFail(p, kind)
    \/ \E p \in Procs : AbortStep(p)
    \/ \E p \in Procs : Commit(p)
    \/ \E f \in Features : ValidateGates(f)
    \/ \E f \in Features : ClarifyQuestions(f)
    \/ \E f \in Features, d \in ReviewDecisions : ManualReview(f, d)
    \/ \E f \in Features : AutoReview(f)
    \/ \E p \in Procs, f \in Features : NoPublishInFlight /\ PublishBegin(p, f)
    \/ \E p \in Procs : PublishFind(p)
    \/ \E p \in Procs : PublishCall(p)
    \/ \E p \in Procs, kind \in FailureKinds : PublishCallFail(p, kind)

SpecSeq == Init /\ [][SeqNext]_vars

(* -------------------- gate evaluation of a compiled draft --------------- *)
AC2 == [id |-> "AC-2", criteria |-> "c"]
ACNoCriteria == [id |-> "AC-3", criteria |-> ""]
TaskNoScope == [task_id |-> "T-1", title |-> "t", type |-> "dev", scope |-> ""]
VV1b == [vv_id |-> "VV-3", task_id |-> "T-1", procedure |-> "p", expected_result |-> "e"]
VVOrphan == [vv_id |-> "VV-4", task_id |-> "T-9", procedure |-> "p", expected_result |-> "e"]
VVNoProcedure == [vv_id |-> "VV-5", task_id |-> "T-1", procedure |-> "", expected_result |-> "e"]

\* what the compiler may extract from an input of any quality
GateContents ==
    [goal_len : {0, MinGoalLen - 1, MinGoalLen, GoalFullLen},
     non_goals : BOOLEAN,
     acceptance_criteria : {<<>>, <<AC1>>, <<AC1, AC2>>, <<AC1, ACNoCriteria>>},
     tasks : {<<>>, <<Task1>>, <<Task1, Task2>>, <<TaskNoScope>>},
     vv : {<<>>, <<VV1>>, <<VV1, VV2>>, <<VV1, VV1b>>, <<VV1, VVNoProcedure>>,
           <<VV1, VVOrphan>>, <<VV2>>}]

\* a feature right after its first compile wrote version 1
InitGate ==
    /\ \E c \in GateContents :
          canonical_specs = {[spec_version |-> 1, feature_id |-> "F1", spec_content |-> c]}
    /\ status = [f \in Features |-> "draft"]
    /\ cur = [f \in Features |-> 1]
    /\ review = [f \in Features |-> [decision |-> "none", by |-> "none"]]
    /\ project_record_id = [f \in Features |-> TRUE]
    /\ putLog = [f \in Features |-> <<1>>]
    /\ publish_ledger = {}
    /\ feishu = {}
    /\ pubLog = [f \in Features |-> <<>>]
    /\ snapshots = <<Snapshot("F1", "compile", 0, 1, "none", 0)>>
    /\ proc = [p \in Procs |-> Idle]
    /\ step_snapshots = <<>>
    /\ runs = [r \in RunIds |-> NoRun]
    /\ InitApp

GateNext ==
    \/ \E f \in Features : ValidateGates(f)
    \/ \E f \in Features : ClarifyQuestions(f)
    \/ \E f \in Features, d \in ReviewDecisions : ManualReview(f, d)

SpecGate == InitGate /\ [][GateNext]_vars

(* ------------------------ two features side by side -------------------- *)
Features2 == {"F1", "F2"}

InitIso ==
    /\ status = [f \in Features2 |-> NoFeature]
    /\ cur = [f \in Features2 |-> 0]
    /\ review = [f \in Features2 |-> [decision |-> "none", by |-> "none"]]
    /\ project_record_id = [f \in Features2 |-> FALSE]
    /\ canonical_specs = {}
    /\ putLog = [f \in Features2 |-> <<>>]
    /\ publish_ledger = {}
    /\ feishu = {}
    /\ pubLog = [f \in Features2 |-> <<>>]
    /\ snapshots = <<>>
    /\ proc = [p \in Procs |-> Idle]
    /\ step_snapshots = <<>>
    /\ runs = [r \in RunIds |-> NoRun]
    /\ InitApp

\* one worker serves each feature
WorkerOf(f) == IF f = "F1" THEN "p1" ELSE "p2"

IsoNext ==
    \/ \E f \in Features2, step \in MutatingSteps : BeginStep(WorkerOf(f), f, step)
    \/ \E p \in Procs : LLMReturn(p)
    \/ \E p \in Procs, kind \in FailureKinds : LLMFail(p, kind)
    \/ \E p \in Procs : Commit(p)
    \/ \E f \in Features2 : ValidateGates(f)
    \/ \E f \in Features2 : ManualReview(f, "go")
    \/ \E f \in Features2 : NoPublishInFlight /\ PublishBegin(WorkerOf(f), f)
    \/ \E p \in Procs : PublishFind(p)
    \/ \E p \in Procs : PublishCall(p)
    \/ \E p \in Procs, kind \in FailureKinds : PublishCallFail(p, kind)

SpecIso == InitIso /\ [][IsoNext]_vars

(* ------------------ one run of the pipeline: POST /run ------------------ *)
\* the input text of a run: the empty string, or text the compiler may or may
\* not be able to parse
RunInputs == {"empty", "text"}

\* each run creates the feature it compiles
FeatureOf(r) == IF r = "R1" THEN "F1" ELSE "F2"

InitRun == InitIso

NextSeqRestart(r) == 1

\* step.seq: the position of the step in the run's execution order, from 1
NextSeq(r) == runs[r].seq + 1

\* the step's snapshot goes to the step_snapshots table under the run's id
WriteSnapshot(r, snap) ==
    /\ step_snapshots' =
          Append(step_snapshots, [run_id |-> r, step_seq |-> NextSeq(r), snapshot |-> snap])
    /\ snapshots' = <<snap>>

\* the run ends after the step, with the error or "none"
EndRun(r, err) ==
    runs' = [runs EXCEPT ![r].pc = "done", ![r].seq = NextSeq(r), ![r].error = err]

\* the run moves on to the next step of ingest -> compile -> validate_gates
NextStep(r, pc) ==
    runs' = [runs EXCEPT ![r].pc = pc, ![r].seq = NextSeq(r)]

\* POST /api/v1/run arrives with its input
StartRun(r, input) ==
    /\ runs[r].pc = "new"
    /\ input \in RunInputs
    /\ runs' = [runs EXCEPT ![r].pc = "ingest", ![r].input = input]
    /\ snapshots' = <<>>
    /\ UNCHANGED <<status, cur, review, project_record_id, canonical_specs, putLog,
                   publish_ledger, feishu, pubLog, proc, step_snapshots>>
    /\ UNCHANGED client_vars

\* ingest: the Input Parser; empty input is answered 400 INVALID_INPUT and the
\* run does not continue
RunIngest(r) ==
    /\ runs[r].pc = "ingest"
    /\ IF runs[r].input = "empty"
       THEN /\ WriteSnapshot(r, Snapshot(FeatureOf(r), "ingest", 0, 0, "non_retryable", 0))
            /\ EndRun(r, "invalid_input")
       ELSE /\ WriteSnapshot(r, Snapshot(FeatureOf(r), "ingest", 0, 0, "none", 0))
            /\ NextStep(r, "compile")
    /\ UNCHANGED <<status, cur, review, project_record_id, canonical_specs, putLog,
                   publish_ledger, feishu, pubLog, proc>>
    /\ UNCHANGED client_vars

\* compile: the LLM call fails; the step ends with the error in its snapshot
RunCompileFail(r, kind) ==
    /\ runs[r].pc = "compile"
    /\ kind \in FailureKinds
    /\ WriteSnapshot(r, Snapshot(FeatureOf(r), "compile", 0, 0, kind, RetriesMade(kind, 0)))
    /\ EndRun(r, kind)
    /\ UNCHANGED <<status, cur, review, project_record_id, canonical_specs, putLog,
                   publish_ledger, feishu, pubLog, proc>>
    /\ UNCHANGED client_vars

\* compile: the LLM call returns a draft, complete or not; the spec_version is drawn
RunCompileReturn(r) ==
    /\ runs[r].pc = "compile"
    /\ \E c \in StepOutputs("compile", EmptyContent) :
          runs' = [runs EXCEPT ![r].pc = "put", ![r].content = c,
                               ![r].cand = NextSpecVersion(canonical_specs)]
    /\ snapshots' = <<>>
    /\ UNCHANGED <<status, cur, review, project_record_id, canonical_specs, putLog,
                   publish_ledger, feishu, pubLog, proc, step_snapshots>>
    /\ UNCHANGED client_vars

\* compile: put writes the draft as the feature's first version
RunCompilePut(r) ==
    /\ runs[r].pc = "put"
    /\ LET f == FeatureOf(r)
           v == runs[r].cand
       IN IF ~PutOk(canonical_specs, f, 0, v)
          THEN /\ WriteSnapshot(r, Snapshot(f, "compile", 0, 0, "version_conflict", 0))
               /\ EndRun(r, "version_conflict")
               /\ UNCHANGED <<status, cur, project_record_id, canonical_specs, putLog>>
          ELSE /\ canonical_specs' = InsertRow(canonical_specs, f, v, runs[r].content)
               /\ cur' = [cur EXCEPT ![f] = v]
               /\ putLog' = [putLog EXCEPT ![f] = Append(@, v)]
               /\ status' = [status EXCEPT ![f] = StatusAfter("compile", @)]
               /\ \E prj \in BOOLEAN :
                     project_record_id' = [project_record_id EXCEPT ![f] = prj]
               /\ WriteSnapshot(r, Snapshot(f, "compile", 0, v, "none", 0))
               /\ NextStep(r, "validate_gates")
    /\ UNCHANGED <<review, publish_ledger, feishu, pubLog, proc>>
    /\ UNCHANGED client_vars

\* validate_gates: the last step of the run evaluates the draft and moves it
RunValidateGates(r) ==
    /\ runs[r].pc = "validate_gates"
    /\ LET f == FeatureOf(r)
       IN /\ status' = [status EXCEPT ![f] = next_status(evaluate(CurContent(f)))]
          /\ WriteSnapshot(r, Snapshot(f, "validate_gates", cur[f], cur[f], "none", 0))
    /\ EndRun(r, "none")
    /\ UNCHANGED <<cur, review, project_record_id, canonical_specs, putLog,
                   publish_ledger, feishu, pubLog, proc>>
    /\ UNCHANGED client_vars

RunNext ==
    \/ \E r \in RunIds, input \in RunInputs : StartRun(r, input)
    \/ \E r \in RunIds : RunIngest(r)
    \/ \E r \in RunIds, kind \in FailureKinds : RunCompileFail(r, kind)
    \/ \E r \in RunIds : RunCompileReturn(r)
    \/ \E r \in RunIds : RunCompilePut(r)
    \/ \E r \in RunIds : RunValidateGates(r)

SpecRun == InitRun /\ [][RunNext]_vars

(* ----------------------------- the web client --------------------------- *)
\* the endpoints that start a Canonical Spec compilation
CompileEndpoints == {"/api/v1/run", "/api/v1/features/{id}/compile"}

\* what a refine answer carries in ready_to_compile
RefineAnswers == {"not_ready", "ready"}

NoLoading == [by |-> "none", feature_id |-> "null"]

NoContext == [round |-> 0, feature_id |-> "null"]

NoResponse == [to |-> "none", ok |-> FALSE]

\* the dialogue was reset: the requests in flight belong to an earlier one
Outdated(S) == {[r EXCEPT !.current = FALSE] : r \in S}

\* what a handler sees of the state: the values of the render it was created in
Closure ==
    [clarifyingFeatureId |-> clarifyingFeatureId, newFeatureInput |-> newFeatureInput,
     round |-> refineContext.round, isHealthy |-> isHealthy]

\* isDisabled: the controls are disabled while the backend is known to be down
isDisabled == isHealthy = "false"

\* the feature list is on screen
ListShown == ~clarifyingMode /\ activeTab = "list"

\* FeatureDetailView is rendered for the selected feature
DetailShown == ~clarifyingMode /\ activeTab = "view" /\ currentFeature \in features

\* nothing was sent and no answer handled in this transition
Quiet == request' = "none" /\ requestBody' = {} /\ response' = NoResponse

Sends(endpoint, body) ==
    request' = endpoint /\ requestBody' = body /\ response' = NoResponse

\* the round the backend answers to a request sent with the context's round
ServerRound(sent) == sent + 1

\* round: data.round || prev.round + 1
NextRound(dataRound, prev) == IF dataRound # 0 THEN dataRound ELSE prev + 1

(* --------------------------- the health checks -------------------------- *)
\* checkBackendHealth() is started: the request is on its way
StartCheck(origin) ==
    /\ checks' = checks \cup {[id |-> checkSeq + 1, origin |-> origin]}
    /\ checkSeq' = checkSeq + 1
    /\ lastResult' = "pending"

\* what the answer of check c does to the answer of the check started last
LastResultAfter(c, healthy) == IF c.id = checkSeq THEN healthy ELSE lastResult

\* retryCheck: the user asks for a health check
performHealthCheck ==
    /\ isPolling
    /\ checkSeq < MaxChecks
    /\ StartCheck("performHealthCheck")
    /\ healthEvent' = "none"
    /\ Quiet
    /\ UNCHANGED <<isHealthy, isPolling, timeoutId>>
    /\ UNCHANGED app_vars
    /\ UNCHANGED backend_vars

\* the check of performHealthCheck is answered: setIsHealthy(result.healthy)
PerformCheckReturn(c, healthy) ==
    /\ c \in checks
    /\ c.origin = "performHealthCheck"
    /\ healthy \in {"true", "false"}
    /\ checks' = checks \ {c}
    /\ isHealthy' = healthy
    /\ lastResult' = LastResultAfter(c, healthy)
    /\ healthEvent' = "setIsHealthy"
    /\ Quiet
    /\ UNCHANGED <<isPolling, timeoutId, checkSeq>>
    /\ UNCHANGED app_vars
    /\ UNCHANGED backend_vars

\* poll, after the await: the timer is set again only while isPolling
Rearm(polling) == polling

\* the check of poll is answered: onHealthChange(result), then the next
\* poll is scheduled
PollCheckReturn(c, healthy) ==
    /\ c \in checks
    /\ c.origin = "poll"
    /\ healthy \in {"true", "false"}
    /\ checks' = checks \ {c}
    /\ isHealthy' = healthy
    /\ lastResult' = LastResultAfter(c, healthy)
    /\ healthEvent' = "onHealthChange"
    /\ timeoutId' = Rearm(isPolling)
    /\ Quiet
    /\ UNCHANGED <<isPolling, checkSeq>>
    /\ UNCHANGED app_vars
    /\ UNCHANGED backend_vars

\* HEALTH_CHECK_INTERVAL has passed: poll runs again
poll ==
    /\ timeoutId
    /\ isPolling
    /\ checkSeq < MaxChecks
    /\ timeoutId' = FALSE
    /\ StartCheck("poll")
    /\ healthEvent' = "none"
    /\ Quiet
    /\ UNCHANGED <<isHealthy, isPolling>>
    /\ UNCHANGED app_vars
    /\ UNCHANGED backend_vars

\* the stop function startHealthCheckPolling returned: the provider unmounts
stopPolling ==
    /\ isPolling
    /\ isPolling' = FALSE
    /\ timeoutId' = FALSE
    /\ healthEvent' = "none"
    /\ Quiet
    /\ UNCHANGED <<isHealthy, checks, checkSeq, lastResult>>
    /\ UNCHANGED app_vars
    /\ UNCHANGED backend_vars

HealthNext ==
    \/ performHealthCheck
    \/ \E c \in checks, healthy \in {"true", "false"} : PerformCheckReturn(c, healthy)
    \/ \E c \in checks, healthy \in {"true", "false"} : PollCheckReturn(c, healthy)
    \/ poll
    \/ stopPolling

SpecHealth == Init /\ [][HealthNext]_vars

\* the user types into, or clears, the input box
setNewFeatureInput(text) ==
    /\ text \in {"", "text"}
    /\ loading = NoLoading
    /\ ~isDisabled
    /\ clarifyingMode => ~refineLoading
    /\ newFeatureInput' = text
    /\ Quiet
    /\ UNCHANGED <<refineResult, clarifyingMode, clarifyingFeatureId, refineContext,
                   refineAnswers, features, currentFeature, activeTab, loading,
                   refineLoading, inflight, timers>>
    /\ UNCHANGED <<sessionSeq, health_vars, healthEvent>>
    /\ UNCHANGED backend_vars

\* the user answers the open questions
setRefineAnswers ==
    /\ clarifyingMode
    /\ refineResult = "not_ready"
    /\ ~isDisabled
    /\ refineAnswers' = "filled"
    /\ Quiet
    /\ UNCHANGED <<refineResult, newFeatureInput, clarifyingMode, clarifyingFeatureId,
                   refineContext, features, currentFeature, activeTab, loading,
                   refineLoading, inflight, timers>>
    /\ UNCHANGED <<sessionSeq, health_vars, healthEvent>>
    /\ UNCHANGED backend_vars

\* the dialogue opens: for a new feature ("null") from the create controls, for
\* an existing one from its card in the list; for an existing feature a refine
\* is scheduled 100 ms later
handleStartClarification(featureId) ==
    /\ featureId \in {"null", "F1"}
    /\ sessionSeq < MaxSessions
    /\ sessionSeq' = sessionSeq + 1
    /\ IF featureId = "null"
       THEN /\ ~isDisabled
            /\ UNCHANGED timers
       ELSE /\ ListShown
            /\ featureId \in features
            /\ Cardinality(timers) < MaxTimers
            /\ timers' = timers \cup {Closure}
    /\ clarifyingFeatureId' = featureId
    /\ clarifyingMode' = TRUE
    /\ refineResult' = "null"
    /\ refineContext' = [round |-> 0, feature_id |-> featureId]
    /\ refineAnswers' = "empty"
    /\ inflight' = Outdated(inflight)
    /\ Quiet
    /\ UNCHANGED <<newFeatureInput, features, currentFeature, activeTab, loading,
                   refineLoading>>
    /\ UNCHANGED <<health_vars, healthEvent>>
    /\ UNCHANGED backend_vars

handleCancelClarification ==
    /\ clarifyingMode
    /\ clarifyingMode' = FALSE
    /\ clarifyingFeatureId' = "null"
    /\ refineResult' = "null"
    /\ refineContext' = NoContext
    /\ refineAnswers' = "empty"
    /\ newFeatureInput' = ""
    /\ inflight' = Outdated(inflight)
    /\ Quiet
    /\ UNCHANGED <<features, currentFeature, activeTab, loading, refineLoading,
                   timers>>
    /\ UNCHANGED <<sessionSeq, health_vars, healthEvent>>
    /\ UNCHANGED backend_vars

\* a card of a feature that is not in clarifying: its detail view opens
openFeature(f) ==
    /\ ListShown
    /\ f \in features
    /\ currentFeature' = f
    /\ activeTab' = "view"
    /\ Quiet
    /\ UNCHANGED <<refineResult, newFeatureInput, clarifyingMode, clarifyingFeatureId,
                   refineContext, refineAnswers, features, loading, refineLoading,
                   inflight, timers>>
    /\ UNCHANGED <<sessionSeq, health_vars, healthEvent>>
    /\ UNCHANGED backend_vars

\* onBack, or the list entry of the sidebar
setActiveTab ==
    /\ activeTab = "view"
    /\ activeTab' = "list"
    /\ Quiet
    /\ UNCHANGED <<refineResult, newFeatureInput, clarifyingMode, clarifyingFeatureId,
                   refineContext, refineAnswers, features, currentFeature, loading,
                   refineLoading, inflight, timers>>
    /\ UNCHANGED <<sessionSeq, health_vars, healthEvent>>
    /\ UNCHANGED backend_vars

\* handleRefine goes past its early returns with the values c it sees
RefineGoes(c) ==
    /\ c.clarifyingFeatureId # "null" \/ c.newFeatureInput # ""
    /\ c.isHealthy # "false"

RefineEndpoint(c) ==
    IF c.clarifyingFeatureId # "null" THEN "/api/v1/features/{id}/refine"
    ELSE "/api/v1/refine"

RefineBody(c) ==
    IF c.clarifyingFeatureId # "null" /\ c.newFeatureInput = "" THEN {"context"}
    ELSE {"input", "context"}

\* the request a refine handler puts in flight; slot tells it from an equal
\* request already in flight
RefineRequest(kind, c) ==
    LET req(n) == [slot |-> n, kind |-> kind, current |-> TRUE,
                   round |-> c.round, feature_id |-> c.clarifyingFeatureId]
    IN req(CHOOSE n \in 1..MaxInFlight :
               /\ req(n) \notin inflight
               /\ \A m \in 1..(n - 1) : req(m) \in inflight)

\* handleRefine as run with the values c: POST /api/v1/refine or
\* /api/v1/features/{id}/refine, unless it returns early
RunRefine(c) ==
    IF RefineGoes(c)
    THEN /\ refineLoading' = TRUE
         /\ inflight' = inflight \cup {RefineRequest("refine", c)}
         /\ Sends(RefineEndpoint(c), RefineBody(c))
    ELSE /\ Quiet
         /\ UNCHANGED <<refineLoading, inflight>>

\* the generate button while the dialogue is open and the result is not ready
handleRefine ==
    /\ clarifyingMode
    /\ loading = NoLoading /\ ~refineLoading /\ ~isDisabled
    /\ newFeatureInput # "" \/ refineResult # "null"
    /\ refineResult # "ready"
    /\ refineContext.round < MaxRound
    /\ Cardinality(inflight) < MaxInFlight
    /\ RunRefine(Closure)
    /\ UNCHANGED <<refineResult, newFeatureInput, clarifyingMode, clarifyingFeatureId,
                   refineContext, refineAnswers, features, currentFeature, activeTab,
                   loading, timers>>
    /\ UNCHANGED <<sessionSeq, health_vars, healthEvent>>
    /\ UNCHANGED backend_vars

\* the timer of handleStartClarification fires: handleRefine of the render in
\* which the card was clicked
TimerFires(t) ==
    /\ t \in timers
    /\ Cardinality(inflight) < MaxInFlight
    /\ timers' = timers \ {t}
    /\ RunRefine(t)
    /\ UNCHANGED <<refineResult, newFeatureInput, clarifyingMode, clarifyingFeatureId,
                   refineContext, refineAnswers, features, currentFeature, activeTab,
                   loading>>
    /\ UNCHANGED <<sessionSeq, health_vars, healthEvent>>
    /\ UNCHANGED backend_vars

\* POST /api/v1/refine/feedback with the answers to the open questions
handleRefineFeedback ==
    /\ clarifyingMode
    /\ refineResult = "not_ready"
    /\ refineAnswers = "filled"
    /\ ~refineLoading /\ ~isDisabled
    /\ refineContext.round < MaxRound
    /\ Cardinality(inflight) < MaxInFlight
    /\ refineLoading' = TRUE
    /\ inflight' = inflight \cup {RefineRequest("feedback", Closure)}
    /\ Sends("/api/v1/refine/feedback", {"feedback", "context"})
    /\ UNCHANGED <<refineResult, newFeatureInput, clarifyingMode, clarifyingFeatureId,
                   refineContext, refineAnswers, features, currentFeature, activeTab,
                   loading, timers>>
    /\ UNCHANGED <<sessionSeq, health_vars, healthEvent>>
    /\ UNCHANGED backend_vars

AnswersAfterAlwaysCleared(r, ok) == "empty"

\* the answers are cleared when handleRefineFeedback returned true
AnswersAfter(r, ok) ==
    IF r.kind = "feedback" /\ ok THEN "empty" ELSE refineAnswers

\* setRefineContext of a stored answer
ContextAfter(r) ==
    [round |-> NextRound(ServerRound(r.round), refineContext.round),
     feature_id |-> IF r.kind = "refine" /\ r.feature_id # "null" THEN r.feature_id
                    ELSE refineContext.feature_id]

\* the answer to a refine or feedback request arrives: res.ok stores it,
\* anything else leaves the state; the flag is cleared either way
RefineResponse(r, ok, data) ==
    /\ r \in inflight
    /\ ok \in BOOLEAN
    /\ data \in RefineAnswers
    /\ inflight' = inflight \ {r}
    /\ refineLoading' = FALSE
    /\ IF ok
       THEN /\ refineResult' = data
            /\ refineContext' = ContextAfter(r)
       ELSE UNCHANGED <<refineResult, refineContext>>
    /\ refineAnswers' = AnswersAfter(r, ok)
    /\ request' = "none" /\ requestBody' = {}
    /\ response' = [to |-> r.kind, ok |-> ok]
    /\ UNCHANGED <<newFeatureInput, clarifyingMode, clarifyingFeatureId, features,
                   currentFeature, activeTab, loading, timers>>
    /\ UNCHANGED <<sessionSeq, health_vars, healthEvent>>
    /\ UNCHANGED backend_vars

\* the refined requirement is submitted for compilation
handleSubmitRefined ==
    /\ clarifyingMode
    /\ loading = NoLoading /\ ~refineLoading /\ ~isDisabled
    /\ refineResult # "null" /\ refineResult = "ready"
    /\ loading' = [by |-> "handleSubmitRefined", feature_id |-> clarifyingFeatureId]
    /\ IF clarifyingFeatureId # "null"
       THEN Sends("/api/v1/features/{id}/compile", {"refine_result"})
       ELSE Sends("/api/v1/run", {"input", "refine_result"})
    /\ UNCHANGED <<refineResult, newFeatureInput, clarifyingMode, clarifyingFeatureId,
                   refineContext, refineAnswers, features, currentFeature, activeTab,
                   refineLoading, inflight, timers>>
    /\ UNCHANGED <<sessionSeq, health_vars, healthEvent>>
    /\ UNCHANGED backend_vars

\* data.feature_id: the feature compiled, a new one for POST /api/v1/run
CreatedFeature == IF loading.feature_id # "null" THEN loading.feature_id ELSE "F2"

\* fetchFeatures: the list is replaced by the backend's when the GET succeeds
ReloadedFeatures(listOk) ==
    IF listOk THEN features \cup {CreatedFeature} ELSE features

\* the answer to the submission: on success the handler reloads the feature
\* list (fetchFeatures of its own render), resets the dialogue and selects the
\* feature for the detail view
SubmitResponse(ok, listOk) ==
    /\ loading.by = "handleSubmitRefined"
    /\ ok \in BOOLEAN /\ listOk \in BOOLEAN
    /\ loading' = NoLoading
    /\ IF ok
       THEN /\ request' = "/api/v1/features" /\ requestBody' = {}
            /\ features' = ReloadedFeatures(listOk)
            /\ clarifyingMode' = FALSE
            /\ clarifyingFeatureId' = "null"
            /\ refineResult' = "null"
            /\ refineContext' = NoContext
            /\ refineAnswers' = "empty"
            /\ newFeatureInput' = ""
            /\ currentFeature' = CreatedFeature
            /\ activeTab' = "view"
            /\ inflight' = Outdated(inflight)
       ELSE /\ request' = "none" /\ requestBody' = {}
            /\ UNCHANGED <<features, clarifyingMode, clarifyingFeatureId, refineResult,
                           refineContext, refineAnswers, newFeatureInput,
                           currentFeature, activeTab, inflight>>
    /\ response' = [to |-> "handleSubmitRefined", ok |-> ok]
    /\ UNCHANGED <<refineLoading, timers>>
    /\ UNCHANGED <<sessionSeq, health_vars, healthEvent>>
    /\ UNCHANGED backend_vars

\* FeatureDetailView: the effect on [featureId, isHealthy] loads the feature
fetchFeatureDetails ==
    /\ DetailShown
    /\ isHealthy # "false"
    /\ Sends("/api/v1/features/{id}", {})
    /\ UNCHANGED app_vars
    /\ UNCHANGED <<health_vars, healthEvent>>
    /\ UNCHANGED backend_vars

\* FeatureDetailView: the answers to the gate's questions are submitted
handleSubmitAnswers ==
    /\ DetailShown
    /\ isHealthy # "false"
    /\ Sends("/api/v1/features/{id}/answer", {"answers"})
    /\ UNCHANGED app_vars
    /\ UNCHANGED <<health_vars, healthEvent>>
    /\ UNCHANGED backend_vars

\* FeatureDetailView: the feature is published to Feishu
handlePublishToFeishu ==
    /\ DetailShown
    /\ isHealthy # "false"
    /\ Sends("/api/v1/features/{id}/publish", {})
    /\ UNCHANGED app_vars
    /\ UNCHANGED <<health_vars, healthEvent>>
    /\ UNCHANGED backend_vars

\* Enter in the input box or the generate button: the text goes straight to
\* POST /api/v1/run
handleCreateFeature ==
    /\ loading = NoLoading
    /\ newFeatureInput # ""
    /\ loading' = [by |-> "handleCreateFeature", feature_id |-> "null"]
    /\ Sends("/api/v1/run", {"input"})
    /\ UNCHANGED <<refineResult, newFeatureInput, clarifyingMode, clarifyingFeatureId,
                   refineContext, refineAnswers, features, currentFeature, activeTab,
                   refineLoading, inflight, timers>>
    /\ UNCHANGED <<sessionSeq, health_vars, healthEvent>>
    /\ UNCHANGED backend_vars

CreateResponse(ok, listOk) ==
    /\ loading.by = "handleCreateFeature"
    /\ ok \in BOOLEAN /\ listOk \in BOOLEAN
    /\ loading' = NoLoading
    /\ IF ok
       THEN /\ request' = "/api/v1/features" /\ requestBody' = {}
            /\ features' = ReloadedFeatures(listOk)
            /\ currentFeature' = CreatedFeature
            /\ activeTab' = "view"
            /\ newFeatureInput' = ""
       ELSE /\ request' = "none" /\ requestBody' = {}
            /\ UNCHANGED <<features, currentFeature, activeTab, newFeatureInput>>
    /\ response' = [to |-> "handleCreateFeature", ok |-> ok]
    /\ UNCHANGED <<refineResult, clarifyingMode, clarifyingFeatureId, refineContext,
                   refineAnswers, refineLoading, inflight, timers>>
    /\ UNCHANGED <<sessionSeq, health_vars, healthEvent>>
    /\ UNCHANGED backend_vars

\* the controls of App.jsx, the health checks running beside them
AppNext ==
    \/ \E text \in {"", "text"} : setNewFeatureInput(text)
    \/ setRefineAnswers
    \/ \E featureId \in {"null", "F1"} : handleStartClarification(featureId)
    \/ handleCancelClarification
    \/ \E f \in features : openFeature(f)
    \/ setActiveTab
    \/ handleRefine
    \/ \E t \in timers : TimerFires(t)
    \/ handleRefineFeedback
    \/ \E r \in inflight, ok \in BOOLEAN, data \in RefineAnswers : RefineResponse(r, ok, data)
    \/ handleSubmitRefined
    \/ \E ok \in BOOLEAN, listOk \in BOOLEAN : SubmitResponse(ok, listOk)
    \/ fetchFeatureDetails
    \/ handleSubmitAnswers
    \/ handlePublishToFeishu
    \/ \E c \in checks, healthy \in {"true", "false"} : PerformCheckReturn(c, healthy)
    \/ \E c \in checks, healthy \in {"true", "false"} : PollCheckReturn(c, healthy)

SpecApp == Init /\ [][AppNext]_vars

\* the client whose input box creates directly: the input box, the refine
\* dialogue of its create window and the feature list; it runs no health check
ClientNext ==
    \/ \E text \in {"", "text"} : setNewFeatureInput(text)
    \/ setRefineAnswers
    \/ handleStartClarification("null")
    \/ handleCancelClarification
    \/ \E f \in features : openFeature(f)
    \/ setActiveTab
    \/ handleRefine
    \/ handleRefineFeedback
    \/ \E r \in inflight, ok \in BOOLEAN, data \in RefineAnswers : RefineResponse(r, ok, data)
    \/ handleSubmitRefined
    \/ \E ok \in BOOLEAN, listOk \in BOOLEAN : SubmitResponse(ok, listOk)
    \/ handleCreateFeature
    \/ \E ok \in BOOLEAN, listOk \in BOOLEAN : CreateResponse(ok, listOk)

SpecClient == Init /\ [][ClientNext]_vars

(* ------------------------------ properties ----------------------------- *)
\* C1: in every reachable state the publish ledger holds at most one entry
\* with status active for any (feature_id, target, spec_version) triple,
\* whatever successful, failed, repeated or concurrent publishes led there.
C1_LedgerActiveUnique ==
    \A e1 \in publish_ledger : \A e2 \in publish_ledger :
        ( /\ e1.status = "active" /\ e2.status = "active"
          /\ e1.feature_id = e2.feature_id
          /\ e1.target = e2.target
          /\ e1.spec_version = e2.spec_version ) => e1 = e2

\* a second, concurrent publish of the triple reached the ledger write and was
\* turned away by the unique key while the active entry of the first stands
C1_Witness ==
    \E f \in Features : \E i \in 1..Len(pubLog[f]) :
        /\ pubLog[f][i].operation = "conflict"
        /\ ActiveEntries(f, pubLog[f][i].spec_version) # {}

\* C2: when publish is called repeatedly in sequence for one (feature, target,
\* spec_version), exactly one ledger entry with operation created or updated
\* exists, every call after the creating one returns noop with the external id
\* of the first, makes no Feishu call, and one external record exists.
C2_SequentialPublishIdempotent ==
    \A f \in Features : \A i \in 1..Len(pubLog[f]) :
        pubLog[f][i].operation \in {"created", "updated"} =>
            LET v == pubLog[f][i].spec_version
            IN /\ Cardinality({e \in ledger_get(publish_ledger, f, Target, v) :
                                  e.operation \in {"created", "updated"}}) = 1
               /\ \A j \in (i + 1)..Len(pubLog[f]) :
                     pubLog[f][j].spec_version = v =>
                         /\ pubLog[f][j].operation = "noop"
                         /\ pubLog[f][j].external_id = pubLog[f][i].external_id
                         /\ pubLog[f][j].calls = 0
               /\ Cardinality({r \in feishu : r.feature_id = f}) = 1

\* the log of one feature is full and reads created, then noop only, for
\* one version
C2_Witness ==
    \E f \in Features :
        /\ Len(pubLog[f]) = MaxPublishCalls
        /\ pubLog[f][1].operation = "created"
        /\ \A j \in 2..Len(pubLog[f]) :
              /\ pubLog[f][j].operation = "noop"
              /\ pubLog[f][j].spec_version = pubLog[f][1].spec_version

\* C3: concurrent publish attempts for one (feature, target, spec_version)
\* never leave more than one external record created for that triple.
C3_NoDuplicateExternalRecord ==
    \A f \in Features : \A v \in 1..MaxVersion :
        Cardinality({r \in feishu : r.feature_id = f /\ r.spec_version = v}) <= 1

\* C4: for every feature the spec_versions returned by successive successful
\* put calls are pairwise distinct and strictly increasing, also when two
\* puts for the feature are issued concurrently.
C4_PutVersionsIncrease ==
    \A f \in Features : \A i \in 1..Len(putLog[f]) : \A j \in 1..Len(putLog[f]) :
        i < j => putLog[f][i] < putLog[f][j]

\* two puts were issued from the same input version: one has returned, the
\* other is still pending on a now stale base
C4_Witness ==
    \E f \in Features : \E p \in Procs :
        /\ Len(putLog[f]) >= 2
        /\ proc[p].pc = "put"
        /\ proc[p].feature_id = f
        /\ proc[p].spec_version_in < cur[f]

C7_PublishedOnlyByHumanGo ==
    [][\A f \in Features :
          (status[f] # "published" /\ status'[f] = "published") =>
              \E p \in Procs :
                  /\ proc[p].pc = "pub_call"
                  /\ proc[p].feature_id = f
                  /\ proc'[p].pc = "idle"
                  /\ proc[p].approved_by = "human"]_vars

ListedTransitions ==
    { <<NoFeature, "draft">>, <<"draft", "clarifying">>,
      <<"draft", "executable_ready">>, <<"clarifying", "draft">>,
      <<"executable_ready", "published">>, <<"executable_ready", "hold">>,
      <<"executable_ready", "drop">>, <<"hold", "clarifying">>,
      <<"hold", "drop">> }

\* C9 as stated: every status change is one of (none)->draft,
\* draft->clarifying, draft->ready, clarifying->draft, ready->published,
\* ready->hold, ready->drop, hold->clarifying, hold->drop.
C9_OnlyListedTransitions ==
    [][\A f \in Features :
          status'[f] # status[f] => <<status[f], status'[f]>> \in ListedTransitions]_vars

\* C9: every status change is one of the listed transitions or
\* clarifying->executable_ready (gate evaluation passing while clarifying).
C9_OnlyLegalTransitions ==
    [][\A f \in Features :
          status'[f] # status[f] =>
              <<status[f], status'[f]>>
                  \in ListedTransitions \cup {<<"clarifying", "executable_ready">>}]_vars

\* a clarifying feature whose current version passes all gates: gate
\* evaluation moves it straight to executable_ready
C9_Witness ==
    \E f \in Features :
        /\ status[f] = "clarifying"
        /\ overall_pass(CurContent(f))

\* C10: each successful mutating step (compile, apply_answers, plan_tasks,
\* generate_vv) writes exactly one new row for the feature, whose spec_version
\* is greater than the step's input version.
C10_StepWritesOneNewVersion ==
    [][\A p \in Procs :
          ( /\ proc[p].pc = "put"
            /\ proc'[p].pc = "idle"
            /\ putLog'[proc[p].feature_id] # putLog[proc[p].feature_id] ) =>
              LET new == canonical_specs' \ canonical_specs
              IN /\ Cardinality(new) = 1
                 /\ \A r \in new :
                       /\ r.feature_id = proc[p].feature_id
                       /\ r.spec_version > proc[p].spec_version_in
                       /\ r.spec_version = cur'[proc[p].feature_id]]_vars

\* all four mutating steps have succeeded on a feature: four versions
C10_Witness ==
    \E f \in Features :
        /\ Len(putLog[f]) = 4
        /\ cur[f] = putLog[f][4]
        /\ Cardinality({r \in canonical_specs : r.feature_id = f}) = 4

C12_EveryStepOneSnapshot ==
    [][\A p \in Procs :
          (proc[p].pc # "idle" /\ proc'[p].pc = "idle") => Len(snapshots') = 1]_vars

PublishRequested(f) ==
    \/ /\ proc' = proc
       /\ Len(snapshots') = 1
       /\ snapshots'[1].step = "publish"
       /\ snapshots'[1].feature_id = f
       /\ publish_ledger' = publish_ledger
    \/ \E p \in Procs : /\ proc[p].pc = "idle"
                        /\ proc'[p].pc = "pub_find"
                        /\ proc'[p].feature_id = f

\* the request is refused with a non-retryable error: nothing is called,
\* retried or written
PublishRejected(f) ==
    /\ proc' = proc
    /\ snapshots' = <<Snapshot(f, "publish", cur[f], 0, "non_retryable", 0)>>
    /\ feishu' = feishu
    /\ publish_ledger' = publish_ledger
    /\ pubLog' = pubLog
    /\ status' = status

C15_FailedPublishWritesFailedEntry ==
    [][\A p \in Procs :
          LET f == proc[p].feature_id
              v == proc[p].spec_version_in
          IN ( /\ proc[p].pc = "pub_call" /\ proc'[p].pc = "idle"
               /\ pubLog'[f][Len(pubLog'[f])].operation = "failed" ) =>
                 /\ \E e \in ledger_get(publish_ledger', f, Target, v) :
                       e.status = "failed"
                 /\ {e \in publish_ledger' : e.status = "active"}
                       = {e \in publish_ledger : e.status = "active"}]_vars

\* C16: a retryable failure of an external call is retried at most MaxRetries
\* times before the error is surfaced, any other failure is surfaced with
\* zero retries; every step ends after a bounded number of attempts.
C16_RetriesBounded ==
    /\ \A kind \in FailureKinds :
          /\ RetriesMade(kind, 0) <= MaxRetries
          /\ kind # "retryable" => RetriesMade(kind, 0) = 0
    /\ \A i \in 1..Len(snapshots) :
          /\ snapshots[i].retries <= MaxRetries
          /\ snapshots[i].error = "retryable" => snapshots[i].retries = MaxRetries
          /\ snapshots[i].error # "retryable" => snapshots[i].retries = 0

\* a publish gave up after MaxRetries retries of its create call, after an
\* earlier publish had failed for good on its first create call
C16_Witness ==
    /\ Len(snapshots) = 1
    /\ snapshots[1].error = "retryable"
    /\ snapshots[1].retries = MaxRetries
    /\ snapshots[1].step = "publish"
    /\ \E f \in Features : \E i \in 1..Len(pubLog[f]) :
          pubLog[f][i].operation = "failed" /\ pubLog[f][i].calls = 2

\* C17: publishing a new spec_version of a feature that already has an active
\* ledger entry for another version on the target updates the same record:
\* the result is updated with the prior external_id and the feature has one
\* external record.
C17_NewVersionUpdatesSameRecord ==
    [][\A p \in Procs :
          LET f == proc[p].feature_id
              r == pubLog'[f][Len(pubLog'[f])]
          IN ( /\ proc[p].pc = "pub_call" /\ proc'[p].pc = "idle"
               /\ proc[p].prior_external_id # 0
               /\ r.operation \in {"created", "updated"} ) =>
                 /\ r.operation = "updated"
                 /\ r.external_id = proc[p].prior_external_id
                 /\ Cardinality({x \in feishu' : x.feature_id = f}) = 1]_vars

SameVerdicts(r1, r2) ==
    /\ r1.gate_s = r2.gate_s
    /\ r1.gate_t = r2.gate_t
    /\ r1.gate_v = r2.gate_v

C20_GateVRule ==
    \A f \in Features :
        LET c == CurContent(f)
            r == evaluate(c)
        IN /\ r.gate_v <=>
                /\ Len(c.vv) >= Len(c.tasks)
                /\ \A v \in SeqRange(c.vv) :
                      \E t \in SeqRange(c.tasks) : t.task_id = v.task_id
                /\ \A t \in SeqRange(c.tasks) :
                      \E v \in SeqRange(c.vv) :
                          /\ v.task_id = t.task_id
                          /\ v.procedure # ""
                          /\ v.expected_result # ""
           /\ (c.tasks = <<>> /\ c.vv = <<>>) =>
                /\ r.gate_v
                /\ ~r.gate_t
                /\ status[f] # "executable_ready"

\* the version's goal, non-goals and single acceptance criterion are in order
\* and it has no tasks
OneCriterionNoTasks(c) ==
    /\ c.non_goals
    /\ Len(c.acceptance_criteria) = 1
    /\ \A a \in SeqRange(c.acceptance_criteria) : a.id # "" /\ a.criteria # ""
    /\ c.tasks = <<>>

\* Gate S passed, Gate T failed, the one finding is planning.tasks and gate
\* evaluation leaves the feature clarifying
ScenarioAResult(f) ==
    LET r == evaluate(CurContent(f))
    IN /\ r.gate_s
       /\ ~r.gate_t
       /\ r.missing_fields = {"planning.tasks"}
       /\ ( /\ Len(snapshots) = 1
            /\ snapshots[1].step = "validate_gates" ) => status[f] = "clarifying"

C23_GateTRule ==
    \A f \in Features :
        LET c == CurContent(f)
        IN evaluate(c).gate_t <=>
              /\ Len(c.tasks) >= 1
              /\ \A i \in 1..Len(c.tasks) :
                    /\ c.tasks[i].task_id # ""
                    /\ c.tasks[i].title # ""
                    /\ c.tasks[i].type \in TaskTypes
                    /\ c.tasks[i].scope # ""

\* C24: evaluate returns a verdict for each gate and the score whatever the
\* earlier gates said: the verdict of Gate T and of Gate V is the one the
\* gate's rule gives for the version, also when an earlier gate failed.
C24_LaterGatesEvaluated ==
    \A f \in Features :
        LET c == CurContent(f)
            r == evaluate(c)
        IN /\ r.gate_s \in BOOLEAN /\ r.gate_t \in BOOLEAN /\ r.gate_v \in BOOLEAN
           /\ r.completeness_score = completeness_score(c)
           /\ r.gate_t = gate_t(c)
           /\ r.gate_v = gate_v(c)

\* the version carries two tasks and a vv item for each of them
TwoTasksTwoVV(c) ==
    /\ Len(c.tasks) = 2
    /\ Len(c.vv) = 2
    /\ c.tasks[1].task_id # c.tasks[2].task_id
    /\ \A i \in 1..2 : c.vv[i].task_id = c.tasks[i].task_id

InFlight(f) == {p \in Procs : proc[p].pc # "idle" /\ proc[p].feature_id = f}

OthersLeaveAlone(f) ==
    ( /\ proc'[WorkerOf(f)] = proc[WorkerOf(f)]
      /\ ~(Len(snapshots') = 1 /\ snapshots'[1].feature_id = f) ) =>
        /\ status'[f] = status[f]
        /\ cur'[f] = cur[f]
        /\ review'[f] = review[f]
        /\ project_record_id'[f] = project_record_id[f]
        /\ putLog'[f] = putLog[f]
        /\ pubLog'[f] = pubLog[f]
        /\ {r \in canonical_specs' : r.feature_id = f}
              = {r \in canonical_specs : r.feature_id = f}
        /\ {e \in publish_ledger' : e.feature_id = f}
              = {e \in publish_ledger : e.feature_id = f}
        /\ {x \in feishu' : x.feature_id = f} = {x \in feishu : x.feature_id = f}

\* a step of feature f that reaches put while the feature still accepts it
\* and its input version is still current writes its version
OwnStepCompletes(f) ==
    LET p == WorkerOf(f)
    IN ( /\ proc[p].pc = "put" /\ proc'[p].pc = "idle"
         /\ proc[p].feature_id = f
         /\ status[f] \in StepStatuses(proc[p].step)
         /\ proc[p].spec_version_in = cur[f] ) =>
           /\ putLog'[f] # putLog[f]
           /\ cur'[f] = proc[p].cand

RunFailedElsewhere(r) == runs[r].error \in FailureKinds \cup {"version_conflict"}

C28_AnyInputYieldsDraft ==
    \A r \in RunIds :
        (runs[r].pc = "done" /\ ~RunFailedElsewhere(r)) =>
            /\ runs[r].error = "none"
            /\ cur[FeatureOf(r)] > 0
            /\ ~evaluate(CurContent(FeatureOf(r))).overall_pass =>
                  /\ status[FeatureOf(r)] = "clarifying"
                  /\ missing_fields(CurContent(FeatureOf(r))) # {}

\* C29: within one run the Step Snapshots carry strictly increasing sequence
\* numbers in execution order, none duplicated or out of order, and a snapshot
\* once written is never modified or removed.
C29_SnapshotSeqOrdered ==
    [][ /\ Len(step_snapshots') >= Len(step_snapshots)
        /\ \A i \in 1..Len(step_snapshots) : step_snapshots'[i] = step_snapshots[i]
        /\ \A j \in (Len(step_snapshots) + 1)..Len(step_snapshots') :
              \A i \in 1..(j - 1) :
                 step_snapshots'[i].run_id = step_snapshots'[j].run_id =>
                    step_snapshots'[i].step_seq < step_snapshots'[j].step_seq ]_vars

\* both runs went through all three steps, their snapshots interleaved
C29_Witness ==
    /\ \A r \in RunIds : runs[r].pc = "done" /\ runs[r].seq = 3
    /\ \E i, j, k \in 1..Len(step_snapshots) :
          /\ i < j /\ j < k
          /\ step_snapshots[i].run_id = "R1"
          /\ step_snapshots[j].run_id = "R2"
          /\ step_snapshots[k].run_id = "R1"

\* C30: the client posts to /api/v1/run or /api/v1/features/{id}/compile only
\* when the refine result it holds, the most recent one, has ready_to_compile
\* = true.
C30_CompileOnlyWhenReady ==
    [][request' \in CompileEndpoints => refineResult = "ready"]_vars

\* C33: after a publish of a triple has ended with a failed Ledger Entry, a
\* later publish of the same (feature, target, spec_version) is not answered
\* noop and is not stopped by the ledger's unique key: it calls Feishu again,
\* and when that call succeeds the triple has an active entry.
FailedEntries(f, v) ==
    {e \in ledger_get(publish_ledger, f, Target, v) : e.status = "failed"}

C33_RetryAfterFailedEndsActive ==
    [][ \A f \in Features :
          (/\ Len(pubLog'[f]) = Len(pubLog[f]) + 1
           /\ FailedEntries(f, pubLog'[f][Len(pubLog'[f])].spec_version) # {}) =>
             LET r == pubLog'[f][Len(pubLog'[f])]
             IN /\ r.operation # "noop"
                /\ r.calls > 0
                /\ r.operation # "failed" =>
                      \E e \in ledger_get(publish_ledger', f, Target, r.spec_version) :
                         e.status = "active" ]_vars

\* C38: once the stop function returned by startHealthCheckPolling has been
\* called (isPolling is FALSE), onHealthChange is not invoked again, not even
\* for a check that was in flight when it was called.
C38_NoCallbackAfterStop ==
    [][healthEvent' = "onHealthChange" => isPolling]_vars

\* C39: when no health check is in flight any more, isHealthy is the result of
\* the check that was started last.
C39_LastStartedCheckWins ==
    (checks = {} /\ lastResult # "pending") => isHealthy = lastResult

\* C35: the refine that handleStartClarification schedules for an existing
\* feature goes to /api/v1/features/{id}/refine, whatever the input box holds.
C35_ExistingFeatureRefineSent ==
    [][ \A t \in timers :
          t \notin timers' => request' = "/api/v1/features/{id}/refine" ]_vars

\* C36: the answer to a refine or feedback request whose dialogue was cancelled
\* or replaced is not written into refineResult or refineContext.
C36_StaleResponseDropped ==
    [][ \A r \in inflight :
          (r \notin inflight' /\ ~r.current) =>
              UNCHANGED <<refineResult, refineContext>> ]_vars

\* C40: refineLoading is true whenever a refine or feedback request is in flight.
C40_LoadingWhileInFlight ==
    inflight # {} => refineLoading

\* C32: every successful refine or feedback answer of the dialogue on screen
\* leaves refineContext.round greater than it was.
C32_RoundStrictlyIncreasing ==
    [][ \A r \in inflight :
          (/\ r \notin inflight'
           /\ response'.ok
           /\ clarifyingMode
           /\ r.current) =>
              refineContext'.round > refineContext.round ]_vars

\* C34: while isHealthy is false no handler sends a request to the backend API.
C34_NoRequestWhileUnhealthy ==
    [][ request' # "none" => isHealthy # "false" ]_vars

C31_SubmitCreatesAndShowsDetail ==
    [][ /\ (loading = NoLoading /\ loading'.by = "handleSubmitRefined") =>
              /\ request' = IF clarifyingFeatureId # "null"
                            THEN "/api/v1/features/{id}/compile" ELSE "/api/v1/run"
              /\ "refine_result" \in requestBody'
        /\ (response'.to = "handleSubmitRefined" /\ response'.ok) =>
              /\ ~clarifyingMode'
              /\ currentFeature' = CreatedFeature
              /\ DetailShown' ]_vars

====
